---------------------------- MODULE Spec2Model ----------------------------
(***************************************************************************)
(* Snippet Arsenal (src/main.py): the SQLite snippet store (db_search,     *)
(* db_get, db_insert, db_update, db_delete) and the editor session         *)
(* (SnippetArsenalApp: selected_id, the form widgets, the results list).   *)
(*                                                                         *)
(* A text value is a sequence of one-character strings, so that strip,     *)
(* split, join and LIKE are computed as Python and SQLite compute them.    *)
(* Several application processes may run against the same snippets.db;    *)
(* each one is a session.                                                  *)
(***************************************************************************)
EXTENDS Integers, Sequences, FiniteSets, TLC

VARIABLES
    store,        \* the snippets table: id -> row (without the id column)
    seq,          \* sqlite_sequence: the largest id AUTOINCREMENT has issued
    now,          \* the value CURRENT_TIMESTAMP yields (whole seconds)
    selected_id,  \* per session: self.selected_id (None is NoId)
    form,         \* per session: the six editor widgets' contents
    search_var,   \* per session: the search entry's content
    results,      \* per session: the id column of the results Treeview's rows
    outcome       \* what the last handler run surfaced to its caller

vars == <<store, seq, now, selected_id, form, search_var, results, outcome>>

-----------------------------------------------------------------------------
(* Bounds of the model *)

\* the number of rows the store may ever have issued ids for
MaxId == 2
\* the number of clock ticks (seconds) that may pass
MaxTime == 1
\* the model's stand-in for the LIMIT 200 of db_search, scaled so that the
\* store (at most MaxId rows) can exceed it
SearchLimit == 1
\* the longest tags text the typed forms enumerate in full
TagLen == 4

\* self.selected_id = None (ids issued by AUTOINCREMENT start at 1)
NoId == 0

-----------------------------------------------------------------------------
(* Text: Python's str.strip, str.split(","), ",".join and SQLite's LIKE *)

\* the characters str.strip() removes (the whitespace of the model's alphabet)
Whitespace == {" ", "\t", "\n"}

RECURSIVE lstrip(_)
lstrip(s) ==
    IF s = <<>> THEN s
    ELSE IF Head(s) \in Whitespace THEN lstrip(Tail(s)) ELSE s

RECURSIVE rstrip(_)
rstrip(s) ==
    IF s = <<>> THEN s
    ELSE IF s[Len(s)] \in Whitespace THEN rstrip(SubSeq(s, 1, Len(s) - 1)) ELSE s

\* str.strip()
strip(s) == rstrip(lstrip(s))

\* str.split(","): always at least one segment; "" splits to [""]
RECURSIVE split(_)
split(s) ==
    IF \A i \in 1..Len(s) : s[i] # ","
    THEN <<s>>
    ELSE LET i == CHOOSE j \in 1..Len(s) :
                      s[j] = "," /\ \A k \in 1..(j - 1) : s[k] # ","
         IN  <<SubSeq(s, 1, i - 1)>> \o split(SubSeq(s, i + 1, Len(s)))

\* ",".join(parts)
RECURSIVE join(_)
join(parts) ==
    IF parts = <<>> THEN <<>>
    ELSE IF Len(parts) = 1 THEN parts[1]
    ELSE parts[1] \o <<",">> \o join(Tail(parts))

\* the generator of line 328: t.strip() for t in parts if t.strip()
RECURSIVE stripped_segments(_)
stripped_segments(parts) ==
    IF parts = <<>> THEN <<>>
    ELSE IF strip(Head(parts)) # <<>>
         THEN <<strip(Head(parts))>> \o stripped_segments(Tail(parts))
         ELSE stripped_segments(Tail(parts))

RECURSIVE strip_each(_)
strip_each(parts) ==
    IF parts = <<>> THEN <<>>
    ELSE <<strip(Head(parts))>> \o strip_each(Tail(parts))

\* a normalization without the "if t.strip()" filter: empty segments stay
normalize_tags_keep_empty(tags) == join(strip_each(split(tags)))

\* the generator with the filter "if t": a segment of blanks passes it
RECURSIVE stripped_nonempty_segments(_)
stripped_nonempty_segments(parts) ==
    IF parts = <<>> THEN <<>>
    ELSE IF Head(parts) # <<>>
         THEN <<strip(Head(parts))>> \o stripped_nonempty_segments(Tail(parts))
         ELSE stripped_nonempty_segments(Tail(parts))

\* a normalization that filters the segments before it trims them
normalize_tags_filter_untrimmed(tags) ==
    join(stripped_nonempty_segments(split(tags)))

\* line 328: ",".join(t.strip() for t in tags.split(",") if t.strip())
normalize_tags(tags) == join(stripped_segments(split(tags)))

\* SQLite's LIKE folds the case of ASCII letters only
ascii_lower(c) ==
    CASE c = "A" -> "a"
      [] c = "B" -> "b"
      [] c = "C" -> "c"
      [] c = "X" -> "x"
      [] c = "Y" -> "y"
      [] OTHER -> c

\* text LIKE pattern: % matches any run of characters, _ any one character
RECURSIVE like(_, _)
like(text, pattern) ==
    IF pattern = <<>> THEN text = <<>>
    ELSE IF Head(pattern) = "%"
         THEN like(text, Tail(pattern))
              \/ (text # <<>> /\ like(Tail(text), pattern))
    ELSE IF Head(pattern) = "_"
         THEN text # <<>> /\ like(Tail(text), Tail(pattern))
    ELSE /\ text # <<>>
         /\ ascii_lower(Head(text)) = ascii_lower(Head(pattern))
         /\ like(Tail(text), Tail(pattern))


\* a case-insensitive LIKE against the pattern of line 57: "%" + keyword + "%"
like_pattern(query) == <<"%">> \o strip(query) \o <<"%">>

-----------------------------------------------------------------------------
(* The store: the snippets table and the five db_ functions *)

Max(S) == CHOOSE x \in S : \A y \in S : y <= x

\* INTEGER PRIMARY KEY without AUTOINCREMENT: one more than the largest id
\* present, so the id of a deleted last row is issued again
next_rowid_reuse(st, sq) == Max({0} \union DOMAIN st) + 1

\* INTEGER PRIMARY KEY AUTOINCREMENT: one more than the largest id ever issued
\* (sqlite_sequence) or present
next_rowid(st, sq) == Max({sq} \union DOMAIN st) + 1

\* db_insert: the new row's timestamps both default to CURRENT_TIMESTAMP
db_insert(st, id, clock, f) ==
    [i \in DOMAIN st \union {id} |->
        IF i = id
        THEN [title |-> f.title, language |-> f.language, tags |-> f.tags,
              status |-> f.status, code |-> f.code, notes |-> f.notes,
              created_at |-> clock, updated_at |-> clock]
        ELSE st[i]]

\* an update written as INSERT OR REPLACE: an absent id gets a new row
db_update_upsert(st, id, clock, f) ==
    [i \in DOMAIN st \union {id} |->
        IF i = id
        THEN [title |-> f.title, language |-> f.language, tags |-> f.tags,
              status |-> f.status, code |-> f.code, notes |-> f.notes,
              created_at |-> IF id \in DOMAIN st THEN st[i].created_at ELSE clock,
              updated_at |-> clock]
        ELSE st[i]]

\* an update that stamps created_at instead of updated_at
db_update_stamps_created(st, id, clock, f) ==
    [i \in DOMAIN st |->
        IF i = id
        THEN [title |-> f.title, language |-> f.language, tags |-> f.tags,
              status |-> f.status, code |-> f.code, notes |-> f.notes,
              created_at |-> clock, updated_at |-> st[i].updated_at]
        ELSE st[i]]

\* an update whose WHERE clause is lost: every row is overwritten
db_update_all_rows(st, id, clock, f) ==
    [i \in DOMAIN st |->
        [title |-> f.title, language |-> f.language, tags |-> f.tags,
         status |-> f.status, code |-> f.code, notes |-> f.notes,
         created_at |-> st[i].created_at, updated_at |-> clock]]

\* an update that patches the row and leaves its code and notes as they were
db_update_keeps_code(st, id, clock, f) ==
    [i \in DOMAIN st |->
        IF i = id
        THEN [title |-> f.title, language |-> f.language, tags |-> f.tags,
              status |-> f.status, code |-> st[i].code, notes |-> st[i].notes,
              created_at |-> st[i].created_at, updated_at |-> clock]
        ELSE st[i]]

\* db_update: UPDATE ... WHERE id = ?; no row matches an absent id
db_update(st, id, clock, f) ==
    [i \in DOMAIN st |->
        IF i = id
        THEN [title |-> f.title, language |-> f.language, tags |-> f.tags,
              status |-> f.status, code |-> f.code, notes |-> f.notes,
              created_at |-> st[i].created_at, updated_at |-> clock]
        ELSE st[i]]

\* a DELETE whose WHERE clause is lost: every row goes
db_delete_all_rows(st, id) == [i \in {} |-> st[i]]

\* a delete that removes the oldest row when the id is absent
db_delete_oldest_on_miss(st, id) ==
    IF id \in DOMAIN st \/ DOMAIN st = {}
    THEN [i \in DOMAIN st \ {id} |-> st[i]]
    ELSE LET j == CHOOSE x \in DOMAIN st : \A y \in DOMAIN st : x <= y
         IN  [i \in DOMAIN st \ {j} |-> st[i]]

\* db_delete: DELETE ... WHERE id = ?
db_delete(st, id) == [i \in DOMAIN st \ {id} |-> st[i]]

\* a SELECT whose WHERE clause is lost: the first row of the table, if any
db_get_any_row(st, id) ==
    IF DOMAIN st # {}
    THEN LET j == CHOOSE x \in DOMAIN st : \A y \in DOMAIN st : x <= y
         IN  << <<j, st[j].title, st[j].language, st[j].tags, st[j].status,
                   st[j].code, st[j].notes>> >>
    ELSE <<>>

\* db_get: cur.fetchone() is the row (id, title, language, tags, status, code,
\* notes) or None; the result is the sequence of rows fetched, <<>> for None
db_get(st, id) ==
    IF id \in DOMAIN st
    THEN << <<id, st[id].title, st[id].language, st[id].tags, st[id].status,
              st[id].code, st[id].notes>> >>
    ELSE <<>>

\* the WHERE clause of db_search
matches(row, query) ==
    LET q == like_pattern(query)
    IN  \/ like(row.title, q)
        \/ like(row.language, q)
        \/ like(row.tags, q)
        \/ like(row.code, q)
        \/ like(row.notes, q)

matching_ids(st, query) == {i \in DOMAIN st : matches(st[i], query)}

Min2(a, b) == IF a <= b THEN a ELSE b

\* ORDER BY updated_at without DESC: oldest first
ordered_ids_ascending(st, ids, limit) ==
    LET n == Min2(Cardinality(ids), limit)
    IN  {o \in [1..n -> ids] :
            /\ \A i, j \in 1..n : i < j =>
                  /\ o[i] # o[j]
                  /\ st[o[i]].updated_at <= st[o[j]].updated_at
            /\ \A x \in ids \ {o[i] : i \in 1..n} :
                  \A i \in 1..n : st[o[i]].updated_at <= st[x].updated_at}

\* ORDER BY updated_at DESC LIMIT n: the orders SQLite may return; rows with
\* equal updated_at come in an order SQL leaves unspecified
ordered_ids(st, ids, limit) ==
    LET n == Min2(Cardinality(ids), limit)
    IN  {o \in [1..n -> ids] :
            /\ \A i, j \in 1..n : i < j =>
                  /\ o[i] # o[j]
                  /\ st[o[i]].updated_at >= st[o[j]].updated_at
            /\ \A x \in ids \ {o[i] : i \in 1..n} :
                  \A i \in 1..n : st[o[i]].updated_at >= st[x].updated_at}

summary_row(st, i) == <<i, st[i].title, st[i].language, st[i].tags, st[i].status>>

\* db_search: every list of rows cur.fetchall() may return
db_search(st, query) ==
    {[k \in DOMAIN o |-> summary_row(st, o[k])] :
        o \in ordered_ids(st, matching_ids(st, query), SearchLimit)}

-----------------------------------------------------------------------------
(* The editor session: SnippetArsenalApp *)

\* the values of the status Combobox (readonly)
Draft == <<"d", "r", "a", "f", "t">>
Tested == <<"t", "e", "s", "t", "e", "d">>
Prod == <<"p", "r", "o", "d">>

\* the editor after __init__ and after new_snippet: lang_var "py", status_var
\* "draft", every other widget empty
blank_form ==
    [title |-> <<>>, language |-> <<"p", "y">>, tags |-> <<>>,
     status |-> Draft, code |-> <<>>, notes |-> <<>>]

\* tk.Text.get("1.0", "end"): the widget's content and its final newline
text_get(content) == content \o <<"\n">>

\* lines 317-322: the six values save_snippet reads from the widgets
read_form(f) ==
    [title |-> strip(f.title), language |-> strip(f.language),
     tags |-> strip(f.tags), status |-> strip(f.status),
     code |-> strip(text_get(f.code)), notes |-> strip(text_get(f.notes))]

\* a validation that forgets the tags field
missing_required_no_tags(v) ==
    v.title = <<>> \/ v.language = <<>> \/ v.code = <<>>

\* line 324: if not title or not language or not tags or not code
missing_required(v) ==
    v.title = <<>> \/ v.language = <<>> \/ v.tags = <<>> \/ v.code = <<>>

\* a save without line 328: the tags go to the store as they were read
not_normalized(v) == v

\* line 328: the values handed to db_insert / db_update
normalized(v) == [v EXCEPT !.tags = normalize_tags(v.tags)]

\* lines 293-303: the row of db_get loaded into the widgets
loaded_form(row) ==
    [title |-> row[2], language |-> row[3], tags |-> row[4],
     status |-> row[5], code |-> row[6], notes |-> row[7]]

\* a save that never looks at the selection and always inserts
is_new_always(sel) == TRUE

\* line 330: if self.selected_id is None
is_new(sel) == sel = NoId

\* the id column of the rows put into the Treeview: the one column a handler
\* reads back (line 290)
id_column(rows) == [k \in DOMAIN rows |-> rows[k][1]]

\* the user edits the editor widgets
type_form(s, f) ==
    /\ form' = [form EXCEPT ![s] = f]
    /\ UNCHANGED <<store, seq, now, selected_id, search_var, results, outcome>>

\* the user edits the search entry
type_search(s, k) ==
    /\ search_var' = [search_var EXCEPT ![s] = k]
    /\ UNCHANGED <<store, seq, now, selected_id, form, results, outcome>>

\* refresh_results (Search button, <Return>)
refresh_results(s) ==
    /\ outcome' = "return"
    /\ UNCHANGED <<store, seq, now, selected_id, form, search_var>>
    /\ \E r \in db_search(store, search_var[s]) :
          results' = [results EXCEPT ![s] = id_column(r)]

\* on_select: the user picks row i of the results list (with no row picked,
\* line 287 returns and nothing changes)
on_select(s, i) ==
    /\ i \in 1..Len(results[s])
    /\ UNCHANGED <<store, seq, now, search_var, results>>
    /\ LET snippet_id == results[s][i]
           fetched == db_get(store, snippet_id)
       IN  IF fetched = <<>>
           THEN \* row is None: row[0] raises TypeError before any assignment
                /\ outcome' = "TypeError"
                /\ UNCHANGED <<selected_id, form>>
           ELSE /\ selected_id' = [selected_id EXCEPT ![s] = fetched[1][1]]
                /\ form' = [form EXCEPT ![s] = loaded_form(fetched[1])]
                /\ outcome' = "return"

\* a New that resets the widgets and keeps the selection
new_snippet_keeps_selection(s) ==
    /\ form' = [form EXCEPT ![s] = blank_form]
    /\ outcome' = "return"
    /\ UNCHANGED <<store, seq, now, selected_id, search_var, results>>

\* new_snippet (New button)
new_snippet(s) ==
    /\ selected_id' = [selected_id EXCEPT ![s] = NoId]
    /\ form' = [form EXCEPT ![s] = blank_form]
    /\ outcome' = "return"
    /\ UNCHANGED <<store, seq, now, search_var, results>>

\* save_snippet (Save button)
save_snippet(s) ==
    LET v == read_form(form[s])
    IN  IF missing_required(v)
        THEN /\ outcome' = "showerror"
             /\ UNCHANGED <<store, seq, now, selected_id, form, search_var, results>>
        ELSE /\ outcome' = "showinfo"
             /\ UNCHANGED <<now, form, search_var>>
             /\ IF is_new(selected_id[s])
                THEN LET id == next_rowid(store, seq)
                     IN  /\ id <= MaxId
                         /\ store' = db_insert(store, id, now, normalized(v))
                         /\ seq' = id
                         /\ selected_id' = [selected_id EXCEPT ![s] = id]
                ELSE /\ store' = db_update(store, selected_id[s], now, normalized(v))
                     /\ UNCHANGED <<seq, selected_id>>
             /\ \E r \in db_search(store', search_var[s]) :
                   results' = [results EXCEPT ![s] = id_column(r)]

\* a delete without the call of new_snippet: the selection and the widgets stay
delete_keeps_selection(s, confirmed) ==
    IF selected_id[s] = NoId \/ ~confirmed
    THEN /\ outcome' = "return"
         /\ UNCHANGED <<store, seq, now, selected_id, form, search_var, results>>
    ELSE /\ outcome' = "return"
         /\ UNCHANGED <<seq, now, selected_id, form, search_var>>
         /\ store' = db_delete(store, selected_id[s])
         /\ \E r \in db_search(store', search_var[s]) :
               results' = [results EXCEPT ![s] = id_column(r)]

\* delete_snippet (Delete button); confirmed is the answer to askyesno
delete_snippet(s, confirmed) ==
    IF selected_id[s] = NoId \/ ~confirmed
    THEN /\ outcome' = "return"
         /\ UNCHANGED <<store, seq, now, selected_id, form, search_var, results>>
    ELSE /\ outcome' = "return"
         /\ UNCHANGED <<seq, now, search_var>>
         /\ store' = db_delete(store, selected_id[s])
         /\ selected_id' = [selected_id EXCEPT ![s] = NoId]
         /\ form' = [form EXCEPT ![s] = blank_form]
         /\ \E r \in db_search(store', search_var[s]) :
               results' = [results EXCEPT ![s] = id_column(r)]

\* a second of wall-clock time passes
Tick ==
    /\ now < MaxTime
    /\ now' = now + 1
    /\ UNCHANGED <<store, seq, selected_id, form, search_var, results, outcome>>

-----------------------------------------------------------------------------
(* What the user types *)

FormA ==
    [title |-> <<"A", "b">>, language |-> <<"p", "y">>,
     tags |-> <<" ", "a", ",", ",", " ", "b">>, status |-> Draft,
     code |-> <<"x">>, notes |-> <<>>]

FormB ==
    [title |-> <<"c">>, language |-> <<"c">>,
     tags |-> <<"c", " ", ",", "d">>, status |-> Prod,
     code |-> <<"y", " ">>, notes |-> <<"n">>]

\* tags that pass validation and normalize to no tag at all
FormC == [FormB EXCEPT !.tags = <<",">>]

NoTitle == [FormA EXCEPT !.title = <<" ">>]
NoLanguage == [FormA EXCEPT !.language = <<>>]
NoTags == [FormA EXCEPT !.tags = <<" ">>]
NoCode == [FormA EXCEPT !.code = <<"\n">>]

\* one editor: every kind of form; the search entry stays empty
Forms == {FormA, FormC, NoTitle, NoLanguage, NoTags, NoCode}

\* one editor that searches: two valid forms and three keywords
SearchForms == {FormA, FormC}
Keywords == {<<>>, <<" ", "B">>, <<"_">>}

\* two editors of one database file: each types its own valid form, and the
\* search entries stay empty
SharedForms(s) == IF s = 1 THEN {FormA} ELSE {FormB}

\* the characters of the enumerated tags texts
TagAlphabet == {" ", ",", "a", "b"}

\* every tags text of at most TagLen characters, and the text "a, b , c"
TagTexts ==
    UNION {[1..n -> TagAlphabet] : n \in 0..TagLen}
    \union {<<"a", ",", " ", "b", " ", ",", " ", "c">>}

\* the forms a user may have typed into a new editor: any tags text, with
\* titles, codes and notes that do and do not change when trimmed
TypedForms ==
    {[title |-> t, language |-> <<"p", "y">>, tags |-> g, status |-> Tested,
      code |-> c, notes |-> n] :
        t \in {<<"A", "b">>, <<" ", "c">>}, g \in TagTexts,
        c \in {<<"x">>, <<"y", " ">>}, n \in {<<>>, <<"n", "\n">>}}

\* the application processes that are running
Sessions == DOMAIN selected_id

InitWith(S) ==
    /\ store = [i \in {} |-> 0]
    /\ seq = 0
    /\ now = 0
    /\ selected_id = [s \in S |-> NoId]
    /\ form = [s \in S |-> blank_form]
    /\ search_var = [s \in S |-> <<>>]
    /\ results = [s \in S |-> <<>>]
    /\ outcome = "none"

\* the handlers, run by any session
Search == \E s \in Sessions : refresh_results(s)
Select == \E s \in Sessions : \E i \in 1..SearchLimit : on_select(s, i)
New == \E s \in Sessions : new_snippet(s)
Save == \E s \in Sessions : save_snippet(s)
Delete == \E s \in Sessions : \E c \in BOOLEAN : delete_snippet(s, c)

\* one application process on a new snippets.db
Init == InitWith({1})

EditForm == \E s \in Sessions : \E f \in Forms : type_form(s, f)

Next ==
    \/ Tick
    \/ EditForm
    \/ Search
    \/ Select
    \/ New
    \/ Save
    \/ Delete

Spec == Init /\ [][Next]_vars

\* one application process whose user also types keywords, within one second
\* of wall-clock time
SearchEditForm == \E s \in Sessions : \E f \in SearchForms : type_form(s, f)
EditSearch == \E s \in Sessions : \E k \in Keywords : type_search(s, k)

NextSearch ==
    \/ SearchEditForm
    \/ EditSearch
    \/ Search
    \/ Select
    \/ New
    \/ Save
    \/ Delete

SpecSearch == Init /\ [][NextSearch]_vars

\* two application processes on the same snippets.db, within one second of
\* wall-clock time
InitShared == InitWith({1, 2})

SharedEditForm == \E s \in Sessions : \E f \in SharedForms(s) : type_form(s, f)

NextShared ==
    \/ SharedEditForm
    \/ Search
    \/ Select
    \/ New
    \/ Save
    \/ Delete

SpecShared == InitShared /\ [][NextShared]_vars

\* one application process on a new snippets.db whose user has typed a form
\* into the editor and then only uses the buttons and the results list,
\* within one second of wall-clock time
InitTyped ==
    /\ store = [i \in {} |-> 0]
    /\ seq = 0
    /\ now = 0
    /\ selected_id = [s \in {1} |-> NoId]
    /\ form \in [{1} -> TypedForms]
    /\ search_var = [s \in {1} |-> <<>>]
    /\ results = [s \in {1} |-> <<>>]
    /\ outcome = "none"

NextTyped ==
    \/ Search
    \/ Select
    \/ New
    \/ Save
    \/ Delete

SpecTyped == InitTyped /\ [][NextTyped]_vars

-----------------------------------------------------------------------------
(* Properties *)

\* a widget content that is empty after trimming
AllBlank(x) == \A i \in 1..Len(x) : x[i] \in Whitespace

\* a required field of the editor is empty after trimming
RequiredFieldBlank(f) ==
    AllBlank(f.title) \/ AllBlank(f.language) \/ AllBlank(f.tags) \/ AllBlank(f.code)

\* C1: a save whose title, language, tags or code is empty after trimming
\* ends in the error dialog and writes nothing: the stored rows (updated_at
\* included), the id sequence and every session's selection are unchanged.
C1_InvalidSaveWritesNothing ==
    [][\A s \in Sessions :
          (RequiredFieldBlank(form[s]) /\ save_snippet(s))
          => /\ outcome' = "showerror"
             /\ store' = store
             /\ seq' = seq
             /\ selected_id' = selected_id]_vars

\* C1 witness: the error dialog was shown for tags of blanks only, while the
\* session was editing a stored row
C1_Witness ==
    /\ outcome = "showerror"
    /\ \E s \in Sessions :
          /\ form[s].tags # <<>> /\ AllBlank(form[s].tags)
          /\ ~AllBlank(form[s].title) /\ ~AllBlank(form[s].code)
          /\ selected_id[s] \in DOMAIN store

\* C2: a save that passes validation inserts exactly one row when the session
\* has no selection, and the session then edits the id the insert returned;
\* when the session edits an id, no row is created, only that id's row may
\* change, and the session keeps its id.  Other sessions keep their selection.
C2_SaveIsUpsert ==
    [][\A s \in Sessions :
          (~RequiredFieldBlank(form[s]) /\ save_snippet(s))
          => /\ outcome' = "showinfo"
             /\ \A t \in Sessions \ {s} : selected_id'[t] = selected_id[t]
             /\ IF selected_id[s] = NoId
                THEN /\ selected_id'[s] # NoId
                     /\ selected_id'[s] \notin DOMAIN store
                     /\ DOMAIN store' = DOMAIN store \union {selected_id'[s]}
                     /\ seq' = selected_id'[s]
                     /\ \A i \in DOMAIN store : store'[i] = store[i]
                ELSE /\ selected_id'[s] = selected_id[s]
                     /\ DOMAIN store' = DOMAIN store
                     /\ seq' = seq
                     /\ \A i \in DOMAIN store \ {selected_id[s]} :
                           store'[i] = store[i]]_vars

\* C2 witness: a session saved over the row it edits (the row was updated
\* after its creation) while another row exists
C2_Witness ==
    /\ outcome = "showinfo"
    /\ \E s \in Sessions :
          /\ selected_id[s] \in DOMAIN store
          /\ store[selected_id[s]].updated_at > store[selected_id[s]].created_at
          /\ DOMAIN store # {selected_id[s]}

\* C3: selecting a listed row whose id is no longer in the store fails: the
\* not-found condition reaches the caller as the exception raised on the
\* missing row, and nothing is loaded into the session.
C3_SelectMissingFails ==
    [][\A s \in Sessions : \A i \in 1..SearchLimit :
          (/\ i <= Len(results[s])
           /\ results[s][i] \notin DOMAIN store
           /\ on_select(s, i))
          => /\ outcome' = "TypeError"
             /\ selected_id' = selected_id
             /\ form' = form]_vars

\* C3 witness: a select failed on a listed id that another session deleted,
\* while the store holds another row
C3_Witness ==
    /\ outcome = "TypeError"
    /\ store # <<>>
    /\ \E s \in Sessions : \E i \in 1..Len(results[s]) :
          results[s][i] \notin DOMAIN store

\* a comma-joined tag list without empty segments and without whitespace
\* around a segment (the empty text is the list of no tags)
CleanTags(t) ==
    \A i \in 1..Len(t) :
        /\ (i = 1 \/ i = Len(t)) => (t[i] \notin Whitespace /\ t[i] # ",")
        /\ (t[i] = "," /\ 1 < i /\ i < Len(t))
           => /\ t[i - 1] \notin Whitespace /\ t[i - 1] # ","
              /\ t[i + 1] \notin Whitespace /\ t[i + 1] # ","

\* C4: the tags of every stored row are a comma-joined list with no empty
\* segment and no segment with leading or trailing whitespace.
C4_StoredTagsAreClean == \A i \in DOMAIN store : CleanTags(store[i].tags)

\* C4 witness: tags typed with blanks and an empty segment were saved as "a,b"
C4_Witness ==
    \E s \in Sessions :
        /\ form[s].tags = <<" ", "a", ",", ",", " ", "b">>
        /\ selected_id[s] \in DOMAIN store
        /\ store[selected_id[s]].tags = <<"a", ",", "b">>

\* C5: an id that was issued and is no longer in the store never comes back,
\* whatever runs next: a later insert, or the save of a session still editing it.
C5_DeletionIsPermanent ==
    [][\A id \in 1..seq :
          db_get(store, id) = <<>> => id \notin DOMAIN store']_vars

\* C5 witness: a session saved while editing an id that the other session had
\* deleted, a later insert is stored, and the deleted id is still absent
C5_Witness ==
    /\ outcome = "showinfo"
    /\ \E s \in Sessions :
          /\ selected_id[s] # NoId
          /\ selected_id[s] \notin DOMAIN store
          /\ \A t \in Sessions \ {s} : selected_id[t] = NoId
          /\ \E j \in DOMAIN store : j > selected_id[s]

\* k is a substring of text, compared without regard to case
ContainsNoCase(text, k) ==
    \E start \in 0..(Len(text) - Len(k)) :
        \A j \in 1..Len(k) : ascii_lower(text[start + j]) = ascii_lower(k[j])

\* the rows in which the trimmed keyword is a substring of a searched field
SubstringMatches(st, keyword) ==
    LET k == strip(keyword)
    IN  {i \in DOMAIN st :
            \/ ContainsNoCase(st[i].title, k)
            \/ ContainsNoCase(st[i].language, k)
            \/ ContainsNoCase(st[i].tags, k)
            \/ ContainsNoCase(st[i].code, k)
            \/ ContainsNoCase(st[i].notes, k)}

\* the ids listed in a results list
IdsOf(ids) == {ids[j] : j \in 1..Len(ids)}

\* C6: a search lists, up to the cap, exactly the rows in which the trimmed
\* keyword is a case-insensitive substring of title, language, tags, code or
\* notes: no other row is listed, and every such row is listed when they fit.
C6_SearchIsSubstringMatch ==
    [][\A s \in Sessions :
          refresh_results(s)
          => LET wanted == SubstringMatches(store, search_var[s])
                 listed == IdsOf(results'[s])
             IN  /\ listed \subseteq wanted
                 /\ Cardinality(wanted) <= SearchLimit => listed = wanted]_vars

\* what C7 states of the rows listed for the empty keyword, less the order of
\* rows updated within the same second
EmptySearchListing(st, rows) ==
    /\ Len(rows) <= SearchLimit
    /\ \A i, j \in 1..Len(rows) : i < j => rows[i] # rows[j]
    /\ IdsOf(rows) \subseteq DOMAIN st
    /\ Cardinality(DOMAIN st) <= SearchLimit => IdsOf(rows) = DOMAIN st
    /\ \A i, j \in 1..Len(rows) :
          i < j => st[rows[i]].updated_at >= st[rows[j]].updated_at
    /\ \A x \in DOMAIN st \ IdsOf(rows) : \A i \in 1..Len(rows) :
          st[rows[i]].updated_at >= st[x].updated_at

C8_InsertedIdsAreFresh ==
    [][/\ seq' >= seq
       /\ DOMAIN store' \subseteq 1..seq'
       /\ \A i \in DOMAIN store' \ DOMAIN store : i > seq /\ i = seq'
       /\ \A i \in DOMAIN store \ DOMAIN store' :
             \E s \in Sessions : selected_id[s] = i /\ delete_snippet(s, TRUE)
       /\ \A i \in DOMAIN store \intersect DOMAIN store' :
             store'[i].created_at = store[i].created_at]_vars

\* C8 witness: a save ended with the session on id 2, the only row, id 1
\* having been deleted
C8_Witness ==
    /\ outcome = "showinfo"
    /\ seq = 2
    /\ DOMAIN store = {2}
    /\ \E s \in Sessions : selected_id[s] = 2

\* C9: every stored row has created_at <= updated_at (the clock does not run
\* backwards).
C9_CreatedNotAfterUpdated ==
    \A i \in DOMAIN store : store[i].created_at <= store[i].updated_at

\* C9 witness: a row updated in a later second than the one it was created in
C9_Witness ==
    \E i \in DOMAIN store : store[i].created_at < store[i].updated_at /\ store[i].updated_at = now

\* C10: an update of an existing row stores the six values given, keeps the
\* row's id and created_at, sets updated_at to a value not before the previous
\* one, and leaves every other row as it was.
C10_UpdateReplacesOneRow ==
    [][\A s \in Sessions :
          (/\ selected_id[s] \in DOMAIN store
           /\ ~RequiredFieldBlank(form[s])
           /\ save_snippet(s))
          => LET id == selected_id[s]
                 given == normalized(read_form(form[s]))
             IN  /\ DOMAIN store' = DOMAIN store
                 /\ store'[id].title = given.title
                 /\ store'[id].language = given.language
                 /\ store'[id].tags = given.tags
                 /\ store'[id].status = given.status
                 /\ store'[id].code = given.code
                 /\ store'[id].notes = given.notes
                 /\ store'[id].created_at = store[id].created_at
                 /\ store'[id].updated_at >= store[id].updated_at
                 /\ \A i \in DOMAIN store \ {id} : store'[i] = store[i]]_vars

\* C10 witness: a row created from one form was overwritten in a later second
\* with the other form's values, next to a row that still holds the first
C10_Witness ==
    /\ outcome = "showinfo"
    /\ \E s \in Sessions : \E j \in DOMAIN store :
          /\ selected_id[s] \in DOMAIN store
          /\ j # selected_id[s]
          /\ store[selected_id[s]].updated_at > store[selected_id[s]].created_at
          /\ store[selected_id[s]].title = <<"c">>
          /\ store[j].title = <<"A", "b">>
          /\ store[j].updated_at = store[j].created_at

\* C11: round trip through the store.  A save in a session with no selection
\* that passes validation inserts a row, and db_get of the id it returns
\* yields that id, the typed tags in normalized form (for "a, b , c" the row
\* has "a,b,c"), and the title, language, status, code and notes handed to
\* the insert.
C11_InsertGetRoundTrip ==
    [][\A s \in Sessions :
          (/\ selected_id[s] = NoId
           /\ ~RequiredFieldBlank(form[s])
           /\ save_snippet(s))
          => LET given == read_form(form[s])
             IN  db_get(store', selected_id'[s]) =
                    << <<selected_id'[s], given.title, given.language,
                         normalize_tags(form[s].tags), given.status,
                         given.code, given.notes>> >>]_vars

\* C11 witness: the tags "a, b , c" were saved from a new editor and the row
\* fetched by its id has the tags "a,b,c"
C11_Witness ==
    /\ outcome = "showinfo"
    /\ \E s \in Sessions :
          /\ form[s].tags = <<"a", ",", " ", "b", " ", ",", " ", "c">>
          /\ db_get(store, selected_id[s]) # <<>>
          /\ db_get(store, selected_id[s])[1][4] = <<"a", ",", "b", ",", "c">>

\* the editor holds exactly the values on_select loads for the row it edits
HoldsLoadedValues(s) ==
    /\ db_get(store, selected_id[s]) # <<>>
    /\ form[s] = loaded_form(db_get(store, selected_id[s])[1])

\* C12: re-loading and re-saving is idempotent.  A save by a session that
\* edits a stored row and holds the values loaded from it succeeds, and the
\* row's title, language, tags, status, code and notes are as they were.
C12_ReloadResaveIdempotent ==
    [][\A s \in Sessions :
          (HoldsLoadedValues(s) /\ save_snippet(s))
          => LET id == selected_id[s]
             IN  /\ outcome' = "showinfo"
                 /\ db_get(store', id) = db_get(store, id)]_vars

\* C13: tag normalization is idempotent: normalizing a normalized tags text
\* leaves it as it is, for every tags text an editor holds (valid or not) and
\* for the tags of every stored row, which a save has normalized.
C13_NormalizeIdempotent ==
    /\ \A s \in Sessions :
          normalize_tags(normalize_tags(form[s].tags)) = normalize_tags(form[s].tags)
    /\ \A i \in DOMAIN store :
          normalize_tags(store[i].tags) = store[i].tags

\* C13 witness: tags with an empty segment, a segment of one blank and a tag
\* were saved, and the stored tags are that one tag
C13_Witness ==
    /\ outcome = "showinfo"
    /\ \E s \in Sessions :
          /\ form[s].tags = <<",", " ", ",", "b">>
          /\ selected_id[s] \in DOMAIN store
          /\ store[selected_id[s]].tags = <<"b">>

\* C14: session delete.  Confirmed by the user in a session that edits an id,
\* it removes that id's row, leaves every other row as it was and leaves the
\* session with no selection; in a session with no selection it changes
\* neither the store nor the session's selection and fields.
C14_SessionDelete ==
    [][\A s \in Sessions :
          delete_snippet(s, TRUE)
          => IF selected_id[s] = NoId
             THEN /\ store' = store
                  /\ seq' = seq
                  /\ selected_id' = selected_id
                  /\ form' = form
             ELSE /\ DOMAIN store' = DOMAIN store \ {selected_id[s]}
                  /\ \A i \in DOMAIN store' : store'[i] = store[i]
                  /\ selected_id'[s] = NoId
                  /\ \A t \in Sessions \ {s} : selected_id'[t] = selected_id[t]]_vars

\* C14 witness: one of two rows was deleted by the session that edited it;
\* the other row is stored and listed, and the session has no selection
C14_Witness ==
    /\ outcome = "return"
    /\ seq = 2
    /\ Cardinality(DOMAIN store) = 1
    /\ \E s \in Sessions :
          /\ selected_id[s] = NoId
          /\ form[s] = blank_form
          /\ IdsOf(results[s]) = DOMAIN store

\* C15: the store's delete for an id that is not present does not raise and
\* leaves the rows as they were: the same ids, the same values in every row.
C15_DeleteAbsentIsNoOp ==
    [][\A s \in Sessions :
          (/\ selected_id[s] # NoId
           /\ selected_id[s] \notin DOMAIN store
           /\ delete_snippet(s, TRUE))
          => /\ outcome' = "return"
             /\ store' = store
             /\ seq' = seq]_vars

\* C15 witness: row 1 is gone, a session that edited it has run its delete
\* and lists the store again, and the other session's row 2 is still stored
C15_Witness ==
    /\ outcome = "return"
    /\ DOMAIN store = {2}
    /\ \E s \in Sessions :
          /\ selected_id[s] = NoId
          /\ form[s] = blank_form
          /\ results[s] = <<2>>
          /\ \A t \in Sessions \ {s} : selected_id[t] = 2 /\ results[t] = <<2>>

\* the six values a save of form f hands to the store
SavedValues(f) == normalized(read_form(f))

\* the six editable values of a stored row
SixValues(row) ==
    [title |-> row.title, language |-> row.language, tags |-> row.tags,
     status |-> row.status, code |-> row.code, notes |-> row.notes]

\* the row holds the six values of one save of form f
HoldsValuesOf(row, f) == SixValues(row) = SavedValues(f)

\* the values of the saves of the forms the two sessions type
SharedSavedValues == {SavedValues(f) : f \in SharedForms(1) \union SharedForms(2)}

\* C16: last write wins.  When two sessions edit the same stored row, a valid
\* save by either succeeds and the row then holds exactly the six values of
\* that save, whatever the other session saved before; and every row a read
\* can see holds the six values of one save of one typed form, never a
\* mixture of two.
C16_LastWriteWins ==
    [][/\ \A i \in DOMAIN store' : SixValues(store'[i]) \in SharedSavedValues
       /\ \A s \in Sessions :
             (/\ selected_id[s] \in DOMAIN store
              /\ \E t \in Sessions \ {s} : selected_id[t] = selected_id[s]
              /\ ~RequiredFieldBlank(form[s])
              /\ save_snippet(s))
             => /\ outcome' = "showinfo"
                /\ HoldsValuesOf(store'[selected_id[s]], form[s])
                /\ selected_id' = selected_id]_vars

\* C16 witness: both sessions edit row 1, each holds its own typed form, and
\* after a save the row holds the values of session 2, not those of session 1
C16_Witness ==
    /\ outcome = "showinfo"
    /\ selected_id = [s \in Sessions |-> 1]
    /\ Cardinality(Sessions) = 2
    /\ \A s \in Sessions : form[s] \in SharedForms(s)
    /\ store # <<>>
    /\ HoldsValuesOf(store[1], form[2])
    /\ ~HoldsValuesOf(store[1], form[1])

\* C17 (amended): New, in either session state, leaves the session with no
\* selection and resets the editor to the values of a new editor, which are
\* not all empty: title, tags, code and notes are empty, language is "py" and
\* status is "draft".  The store is unchanged.
C17_NewResetsToDefaults ==
    [][\A s \in Sessions :
          new_snippet(s)
          => /\ selected_id'[s] = NoId
             /\ form'[s].title = <<>>
             /\ form'[s].language = <<"p", "y">>
             /\ form'[s].tags = <<>>
             /\ form'[s].status = <<"d", "r", "a", "f", "t">>
             /\ form'[s].code = <<>>
             /\ form'[s].notes = <<>>
             /\ store' = store
             /\ seq' = seq]_vars

\* C17 as stated: New leaves the session with no selection, every one of the
\* six held values empty, and the store unchanged.
C17_NewClearsAllFields ==
    [][\A s \in Sessions :
          new_snippet(s)
          => /\ selected_id'[s] = NoId
             /\ form'[s].title = <<>>
             /\ form'[s].language = <<>>
             /\ form'[s].tags = <<>>
             /\ form'[s].status = <<>>
             /\ form'[s].code = <<>>
             /\ form'[s].notes = <<>>
             /\ store' = store
             /\ seq' = seq]_vars

\* C17 witness: two rows were saved and none deleted, so the session left its
\* last saved row by New; it has no selection and the editor of a new snippet
C17_Witness ==
    /\ outcome = "return"
    /\ seq = 2
    /\ Cardinality(DOMAIN store) = 2
    /\ \E s \in Sessions :
          /\ selected_id[s] = NoId
          /\ form[s] = blank_form

\* C18: with one session as the only writer of the store, a session that
\* edits an id edits a stored row, in every reachable state.
C18_EditedRowExists ==
    \A s \in Sessions : selected_id[s] # NoId => selected_id[s] \in DOMAIN store

\* C18 witness: row 2 was deleted and the session then selected row 1, the
\* only row left
C18_Witness ==
    /\ outcome = "return"
    /\ seq = 2
    /\ DOMAIN store = {1}
    /\ \E s \in Sessions :
          /\ selected_id[s] = 1
          /\ form[s] = loaded_form(db_get(store, 1)[1])

=============================================================================
